---------------------------- MODULE Spec2Model ----------------------------
(***************************************************************************)
(* Model of plugins/convert/masked.py (faceswap): the Convert session, the *)
(* Mask object, and the numeric helpers of the compositing pipeline.       *)
(*                                                                         *)
(* Floating-point values are modelled as extended rationals <<n, d>>:      *)
(*   d > 0  : the finite value n/d, in lowest terms                        *)
(*   <<1,0>> : +Inf     <<-1,0>> : -Inf     <<0,0>> : NaN                  *)
(* The arithmetic follows IEEE-754 for the special values; finite results  *)
(* are exact (float32 rounding of finite results is not modelled).         *)
(***************************************************************************)
EXTENDS Integers, Sequences, FiniteSets, TLC

VARIABLES
    call,     \* the pending call of a helper: its name and arguments
    ret,      \* what the call returned (or raised); NoRet before it ran
    self,     \* the Convert session: its attributes, self.crop and self.mask
    results,  \* what each finished patch_image call returned or raised, in order
    ref,      \* the same session fed only the frames that do not fail
    worker,   \* per worker thread: where it is inside patch_image, its locals
    log       \* history of the accesses to self.crop and self.mask

vars == <<call, ret, self, results, ref, worker, log>>

helperVars == <<self, results, ref, worker, log>>

-----------------------------------------------------------------------------
(* Results of calls                                                        *)

NoRet == [st |-> "none"]
Returned(v) == [st |-> "returned", value |-> v]
Raised(e, where) == [st |-> "raised", error |-> e, at |-> where]

\* Python's None
None == [none |-> TRUE]

\* the helper specifications have no session
NoSession ==
    /\ self = None
    /\ results = <<>>
    /\ ref = None
    /\ worker = None
    /\ log = None

-----------------------------------------------------------------------------
(* Bounds of the model                                                     *)

ImgH == 2
ImgW == 2

NPix == ImgH * ImgW

\* number of elements of a mask array handed to finalize_mask
MaskElems == 3

\* training sizes 1 .. MaxTrainingSize, coverage ratios k / 2^RatioBits
MaxTrainingSize == 12
RatioBits == 4

\* patch_image calls made on one session, worker threads sharing a session
MaxCalls == 3
NWorkers == 2

-----------------------------------------------------------------------------
(* float arithmetic                                                        *)

Abs(i) == IF i < 0 THEN -i ELSE i

Sign(i) == IF i < 0 THEN -1 ELSE IF i > 0 THEN 1 ELSE 0

RECURSIVE GCD(_, _)
GCD(a, b) == IF b = 0 THEN a ELSE GCD(b, a % b)

Q(n, d) ==
    IF d = 0 THEN <<Sign(n), 0>>
    ELSE LET g == GCD(Abs(n), Abs(d))
             s == Sign(d)
         IN  <<(s * n) \div g, (s * d) \div g>>

F(i) == <<i, 1>>

NaN == <<0, 0>>
PosInf == <<1, 0>>
NegInf == <<-1, 0>>

IsNaN(x) == x = NaN
IsFinite(x) == x[2] > 0

FAdd(a, b) ==
    IF a[2] = 0 /\ b[2] = 0
    THEN (IF a = b THEN a ELSE NaN)
    ELSE Q(a[1] * b[2] + b[1] * a[2], a[2] * b[2])

FNeg(a) == <<-a[1], a[2]>>

FSub(a, b) == FAdd(a, FNeg(b))

FMul(a, b) == Q(a[1] * b[1], a[2] * b[2])

FDiv(a, b) ==
    IF IsNaN(a) \/ IsNaN(b) THEN NaN
    ELSE IF a[2] = 0
         THEN (IF b[2] = 0 THEN NaN
               ELSE <<a[1] * (IF b[1] < 0 THEN -1 ELSE 1), 0>>)
         ELSE Q(a[1] * b[2], a[2] * b[1])

\* a < b; false when either is NaN
FLess(a, b) ==
    /\ ~IsNaN(a) /\ ~IsNaN(b)
    /\ a # b
    /\ IF a[2] = 0 THEN a = NegInf
       ELSE IF b[2] = 0 THEN b = PosInf
       ELSE a[1] * b[2] < b[1] * a[2]

FLeq(a, b) == ~IsNaN(a) /\ ~IsNaN(b) /\ (a = b \/ FLess(a, b))

\* np.clip(x, lo, hi) on one element: minimum(maximum(x, lo), hi); NaN stays NaN
Clip(x, lo, hi) ==
    IF IsNaN(x) THEN NaN
    ELSE IF FLess(x, lo) THEN lo
    ELSE IF FLess(hi, x) THEN hi
    ELSE x

\* np.rint on one finite element: the nearest integer, ties to even
Rint(x) ==
    LET fl == x[1] \div x[2]
        r2 == 2 * (x[1] - fl * x[2])
    IN  IF r2 < x[2] THEN fl
        ELSE IF r2 > x[2] THEN fl + 1
        ELSE IF fl % 2 = 0 THEN fl ELSE fl + 1

-----------------------------------------------------------------------------
(* Arrays.  A 2-D array (one channel) is a sequence of NPix elements in    *)
(* row-major (C) order: element (y, x) is at flat index y * ImgW + x,      *)
(* sequence position flat + 1.                                             *)

Pos == 0 .. (NPix - 1)

\* A function over 1 .. n as a sequence value, each element computed once
RECURSIVE ToSeq(_, _)
ToSeq(f, n) == IF n = 0 THEN <<>> ELSE Append(ToSeq(f, n - 1), f[n])

\* the 2-D array given by a function of the sequence position
Arr(f) == ToSeq(f, NPix)

RowOf(p) == p \div ImgW
ColOf(p) == p % ImgW

\* np.nonzero(a) of a 2-D array: the flat positions of the nonzero elements,
\* in row-major order (NaN counts as nonzero)
RECURSIVE NonZeroFrom(_, _)
NonZeroFrom(a, p) ==
    IF p >= Len(a) THEN <<>>
    ELSE (IF a[p + 1] # F(0) THEN <<p>> ELSE <<>>) \o NonZeroFrom(a, p + 1)

NonZero(a) == NonZeroFrom(a, 0)

\* a[indices] for the index tuple np.nonzero returned
Take(a, idx) == ToSeq([k \in 1 .. Len(idx) |-> a[idx[k] + 1]], Len(idx))

\* the sorted distinct values of a sequence (np.unique)
RECURSIVE SortSet(_)
SortSet(S) ==
    IF S = {} THEN <<>>
    ELSE LET m == CHOOSE x \in S : \A y \in S : FLeq(x, y)
         IN  <<m>> \o SortSet(S \ {m})

Unique(m) == SortSet({m[k] : k \in 1 .. Len(m)})

\* return_counts: how often each distinct value occurs
Counts(m, values) ==
    ToSeq([i \in 1 .. Len(values) |-> Cardinality({k \in 1 .. Len(m) : m[k] = values[i]})],
          Len(values))

\* return_inverse: for each element, the index of its value in `values`
Inverse(m, values) ==
    ToSeq([k \in 1 .. Len(m) |-> CHOOSE i \in 1 .. Len(values) : values[i] = m[k]], Len(m))

RECURSIVE SumTo(_, _)
SumTo(c, i) == IF i = 0 THEN 0 ELSE c[i] + SumTo(c, i - 1)

\* np.cumsum(counts) then `/= quants[-1]`
Cdf(counts) ==
    ToSeq([i \in 1 .. Len(counts) |->
              FDiv(F(SumTo(counts, i)), F(SumTo(counts, Len(counts))))], Len(counts))

\* np.interp(x, xp, fp) for one x; xp increasing
Interp(x, xp, fp) ==
    LET n == Len(xp)
    IN  IF FLess(xp[n], x) THEN fp[n]
        ELSE IF FLess(x, xp[1]) THEN fp[1]
        ELSE LET j == CHOOSE i \in 1 .. n :
                          /\ FLeq(xp[i], x)
                          /\ \A k \in 1 .. n : FLeq(xp[k], x) => k <= i
             IN  IF j = n THEN fp[j]
                 ELSE LET slope == FDiv(FSub(fp[j + 1], fp[j]), FSub(xp[j + 1], xp[j]))
                      IN  FAdd(FMul(slope, FSub(x, xp[j])), fp[j])

\* The index argument of ndarray.put as numpy reads it: the tuple
\* (y_indices, x_indices) converted to one array and flattened.
PutIndices(idx) ==
    ToSeq([k \in 1 .. 2 * Len(idx) |->
              IF k <= Len(idx) THEN RowOf(idx[k]) ELSE ColOf(idx[k - Len(idx)])],
          2 * Len(idx))

\* ndarray.put(ind, v): a.flat[ind[m]] = v[m mod len(v)], in order
RECURSIVE PutFrom(_, _, _, _)
PutFrom(a, ind, v, m) ==
    IF m > Len(ind) THEN a
    ELSE PutFrom([a EXCEPT ![ind[m] + 1] = v[((m - 1) % Len(v)) + 1]], ind, v, m + 1)

Put(a, ind, v) == PutFrom(a, ind, v, 1)

\* Convert.hist_match on one channel
hist_match(new, frame, image_mask) ==
    LET mask_indices == NonZero(image_mask)
    IN  IF Len(mask_indices) = 0 THEN new
        ELSE LET m_new == Take(new, mask_indices)
                 m_frame == Take(frame, mask_indices)
                 s_values == Unique(m_new)
                 bin_idx == Inverse(m_new, s_values)
                 s_quants == Cdf(Counts(m_new, s_values))
                 t_values == Unique(m_frame)
                 t_quants == Cdf(Counts(m_frame, t_values))
                 interp_s_values ==
                     ToSeq([i \in 1 .. Len(s_values) |->
                               Interp(s_quants[i], t_quants, t_values)], Len(s_values))
                 put_values ==
                     ToSeq([k \in 1 .. Len(bin_idx) |-> interp_s_values[bin_idx[k]]],
                           Len(bin_idx))
             IN  Put(new, PutIndices(mask_indices), put_values)

-----------------------------------------------------------------------------
(* Images.  An H x W x 3 image is a sequence of 3 channels (2-D arrays).   *)

Chans == 1 .. 3

\* the image given by a function of the channel
Img(f) == <<f[1], f[2], f[3]>>

ClipArr(a, lo, hi) == Arr([p \in 1 .. NPix |-> Clip(a[p], lo, hi)])

\* np.clip(img, lo, hi)
ClipImg(img, lo, hi) == Img([c \in Chans |-> ClipArr(img[c], lo, hi)])

RECURSIVE FSumTo(_, _)
FSumTo(a, i) == IF i = 0 THEN F(0) ELSE FAdd(FSumTo(a, i - 1), a[i])

\* np.sum of a 2-D array
FSum(a) == FSumTo(a, Len(a))

\* Convert.color_hist_match: hist_match on each of the three channels
color_hist_match(new, frame, image_mask) ==
    Img([c \in Chans |-> hist_match(new[c], frame[c], image_mask[c])])

\* cv2 border handling BORDER_REFLECT_101 (the default of filter2D)
Reflect101(i, n) ==
    IF n = 1 THEN 0
    ELSE IF i < 0 THEN -i
    ELSE IF i >= n THEN 2 * (n - 1) - i
    ELSE i

At(a, y, x) == a[Reflect101(y, ImgH) * ImgW + Reflect101(x, ImgW) + 1]

Offsets3x3 ==
    <<<<-1, -1>>, <<-1, 0>>, <<-1, 1>>, <<0, -1>>, <<0, 1>>, <<1, -1>>, <<1, 0>>, <<1, 1>>>>

\* cv2.filter2D with the kernel np.ones((3, 3)) * (-1), kernel[1, 1] = 9
BoxFilter(a) ==
    Arr([p \in 1 .. NPix |->
        LET y == RowOf(p - 1)
            x == ColOf(p - 1)
            around == ToSeq([k \in 1 .. 8 |->
                                At(a, y + Offsets3x3[k][1], x + Offsets3x3[k][2])], 8)
        IN  FSub(FMul(F(9), a[p]), FSum(around))])

\* cv2.GaussianBlur(masked, (0, 0), 3.0) is a library routine whose weights
\* are not rational; its result is one of two weighted means of the input:
\* the input itself or the channel's mean.
BlurKinds == {"identity", "mean"}

GaussianBlur(a, kind) ==
    IF kind = "identity" THEN a
    ELSE LET mean == FDiv(FSum(a), F(NPix)) IN Arr([p \in 1 .. NPix |-> mean])

\* cv2.addWeighted(masked, 1.5, blur, -0.5, 0, masked)
AddWeighted(a, b) ==
    Arr([p \in 1 .. NPix |-> FAdd(FMul(Q(3, 2), a[p]), FMul(Q(-1, 2), b[p]))])

\* lines 155-168
Sharpen(args, masked, ext) ==
    IF args.sharpen_image = "none" THEN masked
    ELSE LET clipped == ClipImg(masked, F(0), F(255))
         IN  IF args.sharpen_image = "box_filter"
             THEN Img([c \in Chans |-> BoxFilter(clipped[c])])
             ELSE IF args.sharpen_image = "gaussian_filter"
             THEN Img([c \in Chans |->
                          AddWeighted(clipped[c], GaussianBlur(clipped[c], ext.blur))])
             ELSE clipped

\* one pass of the loop of lines 171-176
AvgColorPass(masked, frame, image_mask) ==
    LET clipped == ClipImg(masked, F(0), F(255))
        avg_diff == Img([c \in Chans |->
            FSum(Arr([p \in 1 .. NPix |->
                        FMul(FSub(frame[c][p], clipped[c][p]), image_mask[c][p])]))])
        adjustment == Img([c \in Chans |-> FDiv(avg_diff[c], FSum(image_mask[c]))])
    IN  Img([c \in Chans |-> Arr([p \in 1 .. NPix |-> FAdd(clipped[c][p], adjustment[c])])])

\* lines 170-176
AvgColorAdjust(args, masked, frame, image_mask) ==
    IF args.avg_color_adjust
    THEN AvgColorPass(AvgColorPass(masked, frame, image_mask), frame, image_mask)
    ELSE masked

\* lines 178-180
MatchHistogram(args, masked, frame, image_mask) ==
    IF args.match_histogram
    THEN color_hist_match(ClipImg(masked, F(0), F(255)), frame, image_mask)
    ELSE masked

\* the colour-corrected synthesized image: `masked` after lines 147-180
Corrected(args, frame, new_image, image_mask, ext) ==
    MatchHistogram(args,
                   AvgColorAdjust(args, Sharpen(args, new_image, ext), frame, image_mask),
                   frame, image_mask)

\* np.nonzero(image_mask) of the H x W x 3 mask: the flat positions that are
\* nonzero in some channel
NonZero3(image_mask) == {p \in Pos : \E c \in Chans : image_mask[c][p + 1] # F(0)}

SetMin(S) == CHOOSE m \in S : \A y \in S : m <= y
SetMax(S) == CHOOSE m \in S : \A y \in S : m >= y

\* slice(start, stop) applied to an axis: the indices it selects
SliceOf(start, stop) == {i \in 0 .. (ImgH + ImgW) : start <= i /\ i < stop}

\* what can come out of casting NaN to uint8 (undefined in C)
NanCastOutcomes == {0, 255}

\* np.rint(blended).astype('uint8') on one element clipped to [0, 255]
ToUint8(x, ext) == IF IsNaN(x) THEN ext.nan_cast ELSE Rint(x)

\* lines 218-220 on an image: clip to [0, 255], round, cast to uint8
Uint8Img(img, ext) ==
    Img([c \in Chans |-> Arr([p \in 1 .. NPix |->
        ToUint8(Clip(img[c][p], F(0), F(255)), ext)])])

\* lines 213-220: the linear blend, the clip and the 8-bit rounding
LinearBlend(masked, frame, image_mask, ext) ==
    Img([c \in Chans |-> Arr([p \in 1 .. NPix |->
        LET foreground == FMul(masked[c][p], image_mask[c][p])
            background == FMul(frame[c][p], FSub(F(1), image_mask[c][p]))
        IN  ToUint8(Clip(FAdd(foreground, background), F(0), F(255)), ext)])])

\* lines 182-211: the arguments handed to cv2.seamlessClone
CloneArgs(frame, image_mask) ==
    LET nz == NonZero3(image_mask)
        ys == {RowOf(p) : p \in nz}
        xs == {ColOf(p) : p \in nz}
        h == ImgH \div 2
        w == ImgW \div 2
    IN  [y_crop |-> SliceOf(SetMin(ys), SetMax(ys)),
         x_crop |-> SliceOf(SetMin(xs), SetMax(xs)),
         y_center |-> Rint(Q(SetMax(ys) + SetMin(ys), 2)) + h,
         x_center |-> Rint(Q(SetMax(xs) + SetMin(xs), 2)) + w]

\* Convert.apply_fixes, for frames of at least 2 x 2 pixels (so that
\* blended[h:-h, w:-w] removes exactly the padding).  `ext` carries what the library routines and the
\* undefined cast produce.  The result records the exception and the step
\* that raised it, or the returned frame with the colour-corrected image
\* and the clone arguments that led to it.
apply_fixes(args, frame, new_image, image_mask, ext) ==
    IF args.draw_transparent
    THEN [st |-> "raised", error |-> "TypeError", at |-> "np.concatenate"]
    ELSE LET masked == Corrected(args, frame, new_image, image_mask, ext)
         IN  IF args.seamless_clone
             THEN IF NonZero3(image_mask) = {}
                  THEN [st |-> "raised", error |-> "ValueError", at |-> "np.min"]
                  ELSE LET clone == CloneArgs(frame, image_mask)
                       IN  IF clone.y_crop = {} \/ clone.x_crop = {}
                           THEN [st |-> "raised", error |-> "cv2.error",
                                 at |-> "cv2.seamlessClone", clone |-> clone]
                           ELSE [st |-> "returned", blend |-> "seamless",
                                 value |-> Uint8Img(ext.cloned, ext),
                                 masked |-> masked, clone |-> clone]
             ELSE [st |-> "returned", blend |-> "linear",
                   value |-> LinearBlend(masked, frame, image_mask, ext),
                   masked |-> masked]

-----------------------------------------------------------------------------
(* Specification of hist_match as a called helper                          *)

PixVals == {F(0), F(100), F(255)}

Channels == {ToSeq(a, NPix) : a \in [1 .. NPix -> PixVals]}

BinaryMasks == {ToSeq(a, NPix) : a \in [1 .. NPix -> {F(0), F(1)}]}

\* frames other than the synthesized channel itself
OtherFrames == {Arr([p \in 1 .. NPix |-> F(100)]),
                Arr([p \in 1 .. NPix |-> F(255 - 50 * (p % 2))])}

InitHist ==
    /\ \E n \in Channels, m \in BinaryMasks :
          \E f \in {n} \cup OtherFrames :
              call = [fn |-> "hist_match", new |-> n, frame |-> f, image_mask |-> m]
    /\ ret = NoRet
    /\ NoSession

CallHistMatch ==
    /\ call.fn = "hist_match"
    /\ ret = NoRet
    /\ ret' = Returned(hist_match(call.new, call.frame, call.image_mask))
    /\ UNCHANGED <<call, helperVars>>

NextHist == CallHistMatch

SpecHist == InitHist /\ [][NextHist]_vars

-----------------------------------------------------------------------------
(* Specification of apply_fixes as a called helper                         *)

\* a 2-D pattern of integers as an image whose channels differ by a tint
Tinted(pattern) ==
    Img([c \in Chans |-> Arr([p \in 1 .. NPix |-> F(pattern[p] + 10 * (c - 1))])])

Replicated(a) == <<a, a, a>>

FramePatterns == {Arr([p \in 1 .. NPix |-> 100]), Arr([p \in 1 .. NPix |-> 40 * p])}

NewPatterns == {Arr([p \in 1 .. NPix |-> 200]), Arr([p \in 1 .. NPix |-> 235 - 45 * p]),
                Arr([p \in 1 .. NPix |-> 40 * p])}

Frames == {Tinted(f) : f \in FramePatterns}

NewImages == {Tinted(n) : n \in NewPatterns}

Masks == {Replicated(m) : m \in BinaryMasks \cup {Arr([p \in 1 .. NPix |-> Q(1, 2)])}}

SharpenModes == {"none", "box_filter", "gaussian_filter"}

FixArgs ==
    [sharpen_image : SharpenModes, avg_color_adjust : BOOLEAN, match_histogram : BOOLEAN,
     seamless_clone : BOOLEAN, draw_transparent : BOOLEAN]

InitFix ==
    /\ \E a \in FixArgs, f \in Frames, n \in NewImages, m \in Masks :
          call = [fn |-> "apply_fixes", args |-> a, frame |-> f, new_image |-> n,
                  image_mask |-> m]
    /\ ret = NoRet
    /\ NoSession

CallApplyFixes ==
    /\ call.fn = "apply_fixes"
    /\ ret = NoRet
    /\ \E b \in BlurKinds, k \in NanCastOutcomes, cl \in {call.frame, call.new_image} :
          ret' = apply_fixes(call.args, call.frame, call.new_image, call.image_mask,
                             [blur |-> b, nan_cast |-> k, cloned |-> cl])
    /\ UNCHANGED <<call, helperVars>>

NextFix == CallApplyFixes

SpecFix == InitFix /\ [][NextFix]_vars

-----------------------------------------------------------------------------
(* Coverage geometry (patch_image, lines 37-41)                            *)

\* int(self.training_coverage_ratio * self.training_size) for the ratio
\* num / den (a dyadic ratio, so the float product is exact)
CoverageOf(training_size, ratio) == (ratio[1] * training_size) \div ratio[2]

PaddingOf(training_size, coverage) == (training_size - coverage) \div 2

\* slice(padding, self.training_size - padding)
CropOf(training_size, padding) == [start |-> padding, stop |-> training_size - padding]

\* the indices a slice selects on an axis of `size` elements
SliceIndices(sl, size) == {i \in 0 .. (size - 1) : sl.start <= i /\ i < sl.stop}

Geometry(training_size, ratio) ==
    LET coverage == CoverageOf(training_size, ratio)
        padding == PaddingOf(training_size, coverage)
    IN  [coverage |-> coverage, padding |-> padding, crop |-> CropOf(training_size, padding)]

\* the coverage ratios in (0, 1] with RatioBits binary digits
Ratios == {<<k, 2 ^ RatioBits>> : k \in 1 .. 2 ^ RatioBits}

InitGeom ==
    /\ \E ts \in 1 .. MaxTrainingSize, r \in Ratios :
          call = [fn |-> "geometry", training_size |-> ts, training_coverage_ratio |-> r]
    /\ ret = NoRet
    /\ NoSession

CallGeometry ==
    /\ call.fn = "geometry"
    /\ ret = NoRet
    /\ ret' = Returned(Geometry(call.training_size, call.training_coverage_ratio))
    /\ UNCHANGED <<call, helperVars>>

NextGeom == CallGeometry

SpecGeom == InitGeom /\ [][NextGeom]_vars

-----------------------------------------------------------------------------
(* The Mask object: get_mask and finalize_mask                             *)

\* the mask methods that getattr(self, self.mask_type) can resolve
MaskTypes == {"cnn", "smoothed", "rect", "dfl", "facehull", "facehull_rect", "ellipse"}

\* stands for np.finfo(float32).max, the value np.nan_to_num gives +Inf
FloatMax == <<2147483647, 1>>

\* np.nan_to_num left out: the element goes to np.clip as it is
NanToNumSkipped(x) == x

\* np.nan_to_num on one element
NanToNum(x) ==
    IF IsNaN(x) THEN F(0)
    ELSE IF x = PosInf THEN FloatMax
    ELSE IF x = NegInf THEN FNeg(FloatMax)
    ELSE x

\* Mask.finalize_mask on a flattened mask
finalize_mask(mask) ==
    ToSeq([i \in 1 .. Len(mask) |-> Clip(NanToNum(mask[i]), F(0), F(1))], Len(mask))

\* The mask variants.  rect, smoothed, facehull, ellipse and dfl are drawn by
\* library routines (cv2.warpAffine, cv2.fillConvexPoly, cv2.ellipse,
\* dfl_full); `drawn` carries what they produced for this frame.
MaskVariant(mask_type, drawn) ==
    CASE mask_type = "cnn" -> drawn.facehull
      [] mask_type = "smoothed" -> drawn.smoothed
      [] mask_type = "rect" -> drawn.rect
      [] mask_type = "dfl" -> drawn.dfl
      [] mask_type = "facehull" -> drawn.facehull
      [] mask_type = "facehull_rect" ->
             ToSeq([i \in 1 .. Len(drawn.rect) |-> FMul(drawn.rect[i], drawn.facehull[i])],
                   Len(drawn.rect))
      [] mask_type = "ellipse" -> drawn.ellipse

\* Mask.get_mask
get_mask(mask_type, drawn) ==
    IF mask_type \notin MaskTypes
    THEN Raised("AttributeError", "Mask.get_mask")
    ELSE Returned(finalize_mask(MaskVariant(mask_type, drawn)))

\* element values a drawing routine can leave in a mask
DrawnVals == {NaN, PosInf, NegInf, F(-1), F(0), Q(1, 2), F(1), F(2)}

DrawnMasks == {ToSeq(a, MaskElems) : a \in [1 .. MaskElems -> DrawnVals]}

\* what the warp of the coverage rectangle can give (cubic overshoot included)
RectMasks == {ToSeq([i \in 1 .. MaskElems |-> F(1)], MaskElems),
              ToSeq([i \in 1 .. MaskElems |-> F(0)], MaskElems),
              ToSeq([i \in 1 .. MaskElems |-> Q(2 * i - 3, 2)], MaskElems)}

InitMask ==
    /\ \E t \in MaskTypes \cup {"unknown"}, d \in DrawnMasks, r \in RectMasks :
          call = [fn |-> "get_mask", mask_type |-> t,
                  drawn |-> [rect |-> IF t = "facehull_rect" THEN r ELSE d,
                             smoothed |-> d, facehull |-> d, dfl |-> d, ellipse |-> d]]
    /\ ret = NoRet
    /\ NoSession

CallGetMask ==
    /\ call.fn = "get_mask"
    /\ ret = NoRet
    /\ ret' = get_mask(call.mask_type, call.drawn)
    /\ UNCHANGED <<call, helperVars>>

NextMask == CallGetMask

SpecMask == InitMask /\ [][NextMask]_vars

-----------------------------------------------------------------------------
(* The Convert session and patch_image                                     *)

\* Convert.__init__: nothing is validated, crop and mask start as None
ConvertInit(arguments, training_size, ratio) ==
    [args |-> arguments, training_size |-> training_size,
     training_coverage_ratio |-> ratio, crop |-> None, mask |-> None]

\* Mask.__init__: stores its arguments, validates nothing
MaskInit(mask_type, training_size, padding, crop) ==
    [training_size |-> training_size, padding |-> padding, mask_type |-> mask_type,
     crop |-> crop]

\* lines 37-46: the session after the crop is stored and the mask initialised
AfterSetup(s) ==
    LET g == Geometry(s.training_size, s.training_coverage_ratio)
    IN  [s EXCEPT !.crop = g.crop,
                  !.mask = IF s.mask = None
                           THEN MaskInit(s.args.mask_type, s.training_size, g.padding, g.crop)
                           ELSE s.mask]

\* Convert.get_new_image: cv2.resize rejects a model output that is not an
\* image; line 96 writes the coverage x coverage patch into the crop slice
get_new_image(s, frame) ==
    LET coverage == CoverageOf(s.training_size, s.training_coverage_ratio)
    IN  IF frame.model_out # "image"
        THEN Raised("cv2.error", "cv2.resize")
        ELSE IF Cardinality(SliceIndices(s.crop, s.training_size)) # coverage
        THEN Raised("ValueError", "src_face[crop, crop] = new_face")
        ELSE Returned(frame.new_image)

\* Mask.get_mask on an H x W x 3 mask: every channel is drawn the same way
get_mask3(mask, drawn) ==
    IF mask.mask_type \notin MaskTypes
    THEN Raised("AttributeError", "Mask.get_mask")
    ELSE Returned(Img([c \in Chans |->
             get_mask(mask.mask_type,
                      [rect |-> drawn[c], smoothed |-> drawn[c], facehull |-> drawn[c],
                       dfl |-> drawn[c], ellipse |-> drawn[c]]).value]))

\* Convert.get_image_mask with erosion_size = 0 and blur_size = 0
get_image_mask(s, frame) ==
    LET m == get_mask3(s.mask, frame.drawn)
    IN  IF m.st = "raised" THEN m ELSE Returned(ClipImg(m.value, F(0), F(1)))

\* lines 48-66: the frame's way through the pipeline, reading self.crop and
\* self.mask; the result names the geometry it was computed with
Pipeline(s, frame) ==
    LET new_image == get_new_image(s, frame)
        image_mask == get_image_mask(s, frame)
        out == IF new_image.st = "raised" THEN new_image
               ELSE IF image_mask.st = "raised" THEN image_mask
               ELSE apply_fixes(s.args, frame.image, new_image.value, image_mask.value,
                                frame.ext)
    IN  [frame |-> frame.id, out |-> out, crop |-> s.crop, mask |-> s.mask]

\* patch_image caching the frame's own slice in the Mask when the frame fails
patch_image_stale(s, frame) ==
    LET after == AfterSetup(s)
        result == Pipeline(after, frame)
    IN  [self |-> IF result.out.st = "raised"
                  THEN [after EXCEPT !.mask.crop = CropOf(0, 0)]
                  ELSE after,
         result |-> result]

\* Convert.patch_image as one call: the session it leaves and its result
patch_image(s, frame) ==
    [self |-> AfterSetup(s), result |-> Pipeline(AfterSetup(s), frame)]

Failed(result) == result.out.st = "raised"

\* the frames of a run: a good one, one whose mask comes out all zero, one
\* for which the model answers with something that is not an image
AllOnes == Arr([p \in 1 .. NPix |-> F(1)])
AllZero == Arr([p \in 1 .. NPix |-> F(0)])

GoodImage == Tinted(Arr([p \in 1 .. NPix |-> 100]))
GoodNew == Tinted(Arr([p \in 1 .. NPix |-> 200]))

SessionFrames ==
    {[id |-> "good", image |-> GoodImage, new_image |-> GoodNew, model_out |-> "image",
      drawn |-> Replicated(AllOnes),
      ext |-> [blur |-> "identity", nan_cast |-> 0, cloned |-> GoodNew]],
     [id |-> "zero_mask", image |-> GoodImage, new_image |-> GoodNew, model_out |-> "image",
      drawn |-> Replicated(AllZero),
      ext |-> [blur |-> "identity", nan_cast |-> 0, cloned |-> GoodImage]],
     [id |-> "bad_shape", image |-> GoodImage, new_image |-> GoodNew,
      model_out |-> "not_image", drawn |-> Replicated(AllOnes),
      ext |-> [blur |-> "identity", nan_cast |-> 0, cloned |-> GoodNew]]}

SessionArgs ==
    [mask_type : {"rect", "facehull_rect", "unknown"}, erosion_size : {0}, blur_size : {0},
     sharpen_image : {"none"}, avg_color_adjust : BOOLEAN, match_histogram : {FALSE},
     seamless_clone : BOOLEAN, draw_transparent : BOOLEAN]

\* (training_size, coverage_ratio): 8 with 3/4 (coverage 6, padding 1) and
\* 8 with 5/8 (coverage 5, padding 1)
SessionGeometries == {<<8, <<3, 4>>>>, <<8, <<5, 8>>>>}

NoHelper ==
    /\ call = None
    /\ ret = NoRet

Init ==
    /\ \E a \in SessionArgs, g \in SessionGeometries :
          /\ self = ConvertInit(a, g[1], g[2])
          /\ ref = [self |-> ConvertInit(a, g[1], g[2]), results |-> <<>>]
    /\ results = <<>>
    /\ worker = None
    /\ log = None
    /\ NoHelper

\* whether the frame fails when it is processed on this session
FailsOn(s, frame) == Failed(patch_image(s, frame).result)

\* the reference run: the failing frames are never submitted
RefStep(frame) ==
    IF FailsOn(self, frame)
    THEN ref
    ELSE [self |-> patch_image(ref.self, frame).self,
          results |-> Append(ref.results, patch_image(ref.self, frame).result)]

\* one patch_image call by the single caller of a sequential run
PatchImage(frame) ==
    /\ Len(results) < MaxCalls
    /\ self' = patch_image(self, frame).self
    /\ results' = Append(results, patch_image(self, frame).result)
    /\ ref' = RefStep(frame)
    /\ UNCHANGED <<call, ret, worker, log>>

Next == \E frame \in SessionFrames : PatchImage(frame)

Spec == Init /\ [][Next]_vars

-----------------------------------------------------------------------------
(* patch_image called by several worker threads on one session.  A thread  *)
(* can be preempted between any two statements, so the call is split at    *)
(* each access to self.crop and self.mask.                                 *)

Workers == 1 .. NWorkers

Idle == [pc |-> "idle"]

InitConc ==
    /\ \E a \in SessionArgs, g \in SessionGeometries : self = ConvertInit(a, g[1], g[2])
    /\ results = <<>>
    /\ ref = None
    /\ worker = [w \in Workers |-> Idle]
    /\ log = [masks_built |-> 0, crop_writes |-> 0, started |-> 0, readers |-> {},
              write_after_read |-> FALSE]
    /\ NoHelper

\* a write by w to self.crop or self.mask after another worker has read them
LateWrite(w) == log.write_after_read \/ (log.readers \ {w}) # {}

\* lines 36-39: the call starts, coverage and padding are locals
Begin(w, frame) ==
    /\ worker[w].pc = "idle"
    /\ log.started < MaxCalls
    /\ worker' = [worker EXCEPT ![w] =
           [pc |-> "set_crop", frame |-> frame,
            padding |-> Geometry(self.training_size, self.training_coverage_ratio).padding]]
    /\ log' = [log EXCEPT !.started = @ + 1]
    /\ UNCHANGED <<call, ret, self, results, ref>>

\* line 41: self.crop = slice(padding, self.training_size - padding)
SetCrop(w) ==
    /\ worker[w].pc = "set_crop"
    /\ self' = [self EXCEPT !.crop = CropOf(self.training_size, worker[w].padding)]
    /\ log' = [log EXCEPT !.crop_writes = @ + 1, !.write_after_read = LateWrite(w)]
    /\ worker' = [worker EXCEPT ![w].pc = "check_mask"]
    /\ UNCHANGED <<call, ret, results, ref>>

\* line 42: if not self.mask
CheckMask(w) ==
    /\ worker[w].pc = "check_mask"
    /\ worker' = [worker EXCEPT ![w].pc = IF self.mask = None THEN "init_mask" ELSE "process"]
    /\ log' = [log EXCEPT !.readers = @ \cup {w}]
    /\ UNCHANGED <<call, ret, self, results, ref>>

\* lines 43-46: self.mask = Mask(self.args.mask_type, ..., self.crop)
InitMaskStep(w) ==
    /\ worker[w].pc = "init_mask"
    /\ self' = [self EXCEPT !.mask =
           MaskInit(self.args.mask_type, self.training_size, worker[w].padding, self.crop)]
    /\ log' = [log EXCEPT !.masks_built = @ + 1, !.readers = @ \cup {w},
                          !.write_after_read = LateWrite(w)]
    /\ worker' = [worker EXCEPT ![w].pc = "process"]
    /\ UNCHANGED <<call, ret, results, ref>>

\* lines 48-66: the frame goes through the pipeline and the call returns
Process(w) ==
    /\ worker[w].pc = "process"
    /\ results' = Append(results, Pipeline(self, worker[w].frame))
    /\ log' = [log EXCEPT !.readers = @ \cup {w}]
    /\ worker' = [worker EXCEPT ![w] = Idle]
    /\ UNCHANGED <<call, ret, self, ref>>

NextConc ==
    \E w \in Workers :
        \/ \E frame \in SessionFrames : Begin(w, frame)
        \/ SetCrop(w)
        \/ CheckMask(w)
        \/ InitMaskStep(w)
        \/ Process(w)

SpecConc == InitConc /\ [][NextConc]_vars

-----------------------------------------------------------------------------
(* Properties                                                              *)

Applied(fn) == call # None /\ call.fn = fn /\ ret # NoRet

\* C1: self.crop and self.mask are written exactly once and only read
\* afterwards: with workers making their first calls concurrently, exactly
\* one Mask is constructed, crop is stored once, and no worker writes crop or
\* mask after another worker has started reading them.
C1_WrittenOnce ==
    /\ log.masks_built <= 1
    /\ log.crop_writes <= 1
    /\ ~log.write_after_read

\* C2: a mask_type without a mask algorithm is rejected when the session is
\* set up; no per-frame call ever fails inside Mask.get_mask because of it.
C2_RejectedAtStart ==
    \A i \in 1 .. Len(results) :
        ~(results[i].out.st = "raised" /\ results[i].out.at = "Mask.get_mask")

\* C3: with seamless_clone on and draw_transparent off, an all-zero mask is
\* reported by a check of its own: the error does not arise inside the
\* bounding-box computation (np.min) nor inside cv2.seamlessClone.
C3_ZeroMaskChecked ==
    (/\ Applied("apply_fixes")
     /\ call.args.seamless_clone /\ ~call.args.draw_transparent
     /\ NonZero3(call.image_mask) = {})
        => /\ ret.st = "raised"
           /\ ret.at \notin {"np.min", "cv2.seamlessClone"}

\* C5: hist_match(new, frame, mask) with frame equal to new and a mask with
\* at least one nonzero pixel returns new unchanged at every pixel.
C5_HistMatchIdentity ==
    (/\ Applied("hist_match")
     /\ call.frame = call.new
     /\ NonZero(call.image_mask) # <<>>)
        => ret.value = call.new

\* clip to [0, 255] and round to 8 bits; -1 marks an element that is not finite
Round8(img) ==
    Img([c \in Chans |-> Arr([p \in 1 .. NPix |->
        IF IsFinite(img[c][p]) THEN Rint(Clip(img[c][p], F(0), F(255))) ELSE -1])])

\* C6: on the linear blend path, whatever sharpen_image, avg_color_adjust
\* and match_histogram are: a mask that is 1 everywhere returns the
\* colour-corrected synthesized image clamped and rounded, a mask that is 0
\* everywhere returns the frame clamped and rounded.
C6_LinearBlendExtremes ==
    (/\ Applied("apply_fixes")
     /\ ~call.args.seamless_clone /\ ~call.args.draw_transparent)
        => /\ call.image_mask = Replicated(AllOnes)
                => ret.st = "returned" /\ ret.value = Round8(ret.masked)
           /\ call.image_mask = Replicated(AllZero)
                => ret.st = "returned" /\ ret.value = Round8(call.frame)

\* C7: with draw_transparent on, apply_fixes completes without error and
\* returns a frame of 4 channels whose alpha channel is 255 everywhere.
C7_TransparentCompletes ==
    (Applied("apply_fixes") /\ call.args.draw_transparent)
        => /\ ret.st = "returned"
           /\ Len(ret.value) = 4
           /\ \A p \in 1 .. NPix : ret.value[4][p] = 255

\* the array handed to finalize_mask by the call
FinalizeInput == MaskVariant(call.mask_type, call.drawn)

InUnitRange(x) == IsFinite(x) /\ FLeq(F(0), x) /\ FLeq(x, F(1))

\* C8 as stated: finalization replaces every NaN, +Inf and -Inf element by 0
\* and clamps every other element to [0, 1].
C8_NonFiniteToZero ==
    (Applied("get_mask") /\ ret.st = "returned")
        => \A i \in 1 .. MaskElems :
               ret.value[i] = IF IsFinite(FinalizeInput[i])
                              THEN Clip(FinalizeInput[i], F(0), F(1))
                              ELSE F(0)

\* C8 (amended): finalization replaces every NaN and -Inf element by 0 and
\* every +Inf element by 1, and clamps every other element to [0, 1]; the
\* mask get_mask returns is finite and within [0, 1] at every element.
C8_Finalized ==
    (Applied("get_mask") /\ ret.st = "returned")
        => \A i \in 1 .. MaskElems :
               /\ InUnitRange(ret.value[i])
               /\ ret.value[i] = IF IsFinite(FinalizeInput[i])
                                 THEN Clip(FinalizeInput[i], F(0), F(1))
                                 ELSE IF FinalizeInput[i] = PosInf THEN F(1) ELSE F(0)

\* a mask holding NaN, +Inf and -Inf at once has been finalized
C8_Witness ==
    /\ Applied("get_mask") /\ ret.st = "returned"
    /\ {NaN, PosInf, NegInf} \subseteq {FinalizeInput[i] : i \in 1 .. MaskElems}

\* C9: the crop slice has exactly `coverage` rows and columns
\* (training_size - 2 * padding = coverage) and 0 <= padding < training_size/2.
C9_CropFitsCoverage ==
    Applied("geometry")
        => /\ Cardinality(SliceIndices(ret.value.crop, call.training_size))
                  = ret.value.coverage
           /\ call.training_size - 2 * ret.value.padding = ret.value.coverage
           /\ 0 <= ret.value.padding
           /\ 2 * ret.value.padding < call.training_size

\* C10: on the seamless-clone path with a mask that has a nonzero pixel, the
\* cropped region contains every nonzero mask pixel and is not empty.
C10_BoundingBox ==
    (/\ Applied("apply_fixes")
     /\ call.args.seamless_clone /\ ~call.args.draw_transparent
     /\ NonZero3(call.image_mask) # {})
        => /\ ret.clone.y_crop # {} /\ ret.clone.x_crop # {}
           /\ \A p \in NonZero3(call.image_mask) :
                  RowOf(p) \in ret.clone.y_crop /\ ColOf(p) \in ret.clone.x_crop

FrameById(id) == CHOOSE f \in SessionFrames : f.id = id

Fresh == ConvertInit(self.args, self.training_size, self.training_coverage_ratio)

RECURSIVE Successes(_)
Successes(rs) ==
    IF rs = <<>> THEN <<>>
    ELSE (IF Failed(Head(rs)) THEN <<>> ELSE <<Head(rs)>>) \o Successes(Tail(rs))

\* a frame fails in the run exactly when it fails on a fresh session
OwnFailuresOnly ==
    \A i \in 1 .. Len(results) :
        Failed(results[i]) <=> FailsOn(Fresh, FrameById(results[i].frame))

\* the failures the claim names: an all-zero mask on the seamless-clone path,
\* a model output of the wrong shape
NamedFailuresOnly ==
    \A i \in 1 .. Len(results) :
        Failed(results[i]) => results[i].out.at \in {"np.min", "cv2.resize"}

\* C4 as stated: after any sequence of calls some of which fail (all-zero
\* mask on the seamless path, model output of the wrong shape) the session
\* state (crop, mask) and the results of the successful calls are those of
\* the run without the failing frames, and no frame fails because of an
\* earlier failure.
C4_AsIfNeverSubmitted ==
    NamedFailuresOnly
        => /\ self.crop = ref.self.crop
           /\ self.mask = ref.self.mask
           /\ Successes(results) = ref.results
           /\ OwnFailuresOnly

\* C4 (amended): a failing call stores crop and initialises mask exactly as a
\* successful call does.  After any sequence of calls the session state is
\* the configured geometry, which is the state of the run without the failing
\* frames as soon as one frame has succeeded; the results of the successful
\* calls are those of the run without the failing frames, and no frame fails
\* because of an earlier failure.
C4_FrameScoped ==
    /\ results # <<>> => self = AfterSetup(Fresh)
    /\ ref.results # <<>> => self.crop = ref.self.crop /\ self.mask = ref.self.mask
    /\ Successes(results) = ref.results
    /\ OwnFailuresOnly

\* a call that failed in one of the named ways is followed by a call that
\* succeeded
C4_Witness ==
    /\ NamedFailuresOnly
    /\ \E i, j \in 1 .. Len(results) : i < j /\ Failed(results[i]) /\ ~Failed(results[j])

=============================================================================
